---- MODULE Spec2Model ----
(***************************************************************************)
(* Model of the M5/M5e plate-reader export decoder (src/src/m5.rs).         *)
(*                                                                         *)
(* Text is modelled as a sequence of characters, each character a          *)
(* one-character string; "deg" stands for the single character U+00B0.     *)
(* A line handed out by the line source carries its terminating "\n".      *)
(***************************************************************************)
EXTENDS Integers, Sequences, FiniteSets, TLC

VARIABLES
    file,        \* the input behind rdr: [count: header line, blocks: ids of block texts]
    pos,         \* rdr: number of lines already handed out by read_line
    buf,         \* the reusable line buffer (String)
    pc,          \* position of the decoder (where it stopped, once result is set)
    block_count, \* read_and_parse: block_count
    blocks,      \* read_and_parse: the PlateBlocks collected so far
    settings,    \* from_rdr: settings of the block being assembled
    data,        \* from_rdr: data of the block being assembled
    r,           \* parse_plate: row index of the for loop
    output,      \* parse_plate: output
    read_info,   \* parse_plate: read_info
    result,      \* outcome of read_and_parse: None while it runs, then Ok, Err or Panic
    block_start, \* history: pos when from_rdr was entered
    read_start,  \* history: pos when parse_plate was entered
    arg,         \* argument of the function under test (function-level specifications)
    ret,         \* its return value
    cache,       \* write_csv: the Cache shared by the write_block calls
    wtr          \* the CSV records written after the header

vars == <<file, pos, buf, pc, block_count, blocks, settings, data, r, output,
          read_info, result, block_start, read_start, arg, ret, cache, wtr>>

None == [none |-> TRUE]

Ok(v) == [ok |-> TRUE, val |-> v]

Err(e) == [ok |-> FALSE, err |-> e]

Panic(e) == [ok |-> FALSE, err |-> e, panic |-> TRUE]

IsPanic(x) == "panic" \in DOMAIN x

Min(S) == CHOOSE x \in S : \A y \in S : x <= y

Max(S) == CHOOSE x \in S : \A y \in S : x >= y

(***************************************************************************)
(* Standard-library text operations as the code uses them.                 *)
(***************************************************************************)
WhiteSpace == {" ", "\t", "\n", "\r"}

Digits == {"0", "1", "2", "3", "4", "5", "6", "7", "8", "9"}

DigitVal(c) ==
    CASE c = "0" -> 0 [] c = "1" -> 1 [] c = "2" -> 2 [] c = "3" -> 3
      [] c = "4" -> 4 [] c = "5" -> 5 [] c = "6" -> 6 [] c = "7" -> 7
      [] c = "8" -> 8 [] c = "9" -> 9

\* str::split(sep): always at least one piece, empty pieces kept
RECURSIVE split(_, _)
split(s, sep) ==
    IF \E i \in 1..Len(s) : s[i] = sep
    THEN LET i == Min({j \in 1..Len(s) : s[j] = sep})
         IN  <<SubSeq(s, 1, i - 1)>> \o split(SubSeq(s, i + 1, Len(s)), sep)
    ELSE <<s>>

\* str::trim: white space removed at both ends
trim(s) ==
    LET keep == {i \in 1..Len(s) : s[i] \notin WhiteSpace}
    IN  IF keep = {} THEN <<>> ELSE SubSeq(s, Min(keep), Max(keep))

\* str::split_whitespace: the maximal runs of non-white-space characters
RECURSIVE split_whitespace(_)
split_whitespace(s) ==
    LET keep == {i \in 1..Len(s) : s[i] \notin WhiteSpace}
    IN  IF keep = {} THEN <<>>
        ELSE LET a  == Min(keep)
                 ws == {i \in a..Len(s) : s[i] \in WhiteSpace}
                 b  == IF ws = {} THEN Len(s) + 1 ELSE Min(ws)
             IN  <<SubSeq(s, a, b - 1)>> \o split_whitespace(SubSeq(s, b, Len(s)))

RECURSIVE DecVal(_)
DecVal(ds) == IF ds = <<>> THEN 0 ELSE 10 * DecVal(SubSeq(ds, 1, Len(ds) - 1)) + DigitVal(ds[Len(ds)])

RECURSIVE StripZeros(_)
StripZeros(ds) == IF ds # <<>> /\ ds[1] = "0" THEN StripZeros(Tail(ds)) ELSE ds

\* a <= b for digit strings without leading zeros
DecLeq(a, b) ==
    \/ Len(a) < Len(b)
    \/ /\ Len(a) = Len(b)
       /\ \/ a = b
          \/ \E i \in 1..Len(a) : /\ DigitVal(a[i]) < DigitVal(b[i])
                                  /\ \A j \in 1..(i - 1) : a[j] = b[j]

U8_MAX == <<"2", "5", "5">>

U16_MAX == <<"6", "5", "5", "3", "5">>

U32_MAX == <<"4", "2", "9", "4", "9", "6", "7", "2", "9", "5">>

USIZE_MAX == <<"1", "8", "4", "4", "6", "7", "4", "4", "0", "7", "3", "7", "0", "9", "5", "5", "1", "6", "1", "5">>

\* <unsigned integer>::from_str: an optional "+", then one or more decimal
\* digits, the value within the type's range; anything else is a ParseIntError
parse_uint(s, max) ==
    LET ds == IF s # <<>> /\ s[1] = "+" THEN Tail(s) ELSE s
    IN  IF ds = <<>> \/ \E i \in 1..Len(ds) : ds[i] \notin Digits
        THEN Err("ParseIntError")
        ELSE IF ~DecLeq(StripZeros(ds), max)
        THEN Err("ParseIntError")
        ELSE Ok(DecVal(StripZeros(ds)))

(***************************************************************************)
(* get_block_count (m5.rs 269-277)                                         *)
(***************************************************************************)
MAGIC == <<"#", "#", "B", "L", "O", "C", "K", "S", "=">>

get_block_count(s) ==
    LET it == split_whitespace(s)
    IN  IF Len(it) >= 2 /\ it[1] = MAGIC
        THEN LET p == parse_uint(it[2], U16_MAX)          \* b.parse()
             IN  IF p.ok THEN p ELSE Err("MalformedCount") \* the ParseIntError
        ELSE Err("MissingMagic")   \* the `_` arm: "Missing BLOCKS magic string"

(***************************************************************************)
(* ReadType / ReadMode (m5.rs 183-217)                                     *)
(***************************************************************************)
STR_WELL_SCAN == <<"W", "e", "l", "l", " ", "S", "c", "a", "n">>

STR_ENDPOINT == <<"E", "n", "d", "p", "o", "i", "n", "t">>

STR_FLUORESCENCE == <<"F", "l", "u", "o", "r", "e", "s", "c", "e", "n", "c", "e">>

STR_ABSORBANCE == <<"A", "b", "s", "o", "r", "b", "a", "n", "c", "e">>

ReadType_from_str(s) ==
    CASE s = STR_WELL_SCAN -> Ok("WellScan")
      [] s = STR_ENDPOINT  -> Ok("Endpoint")
      [] OTHER             -> Err("UnknownEnum")

ReadMode_from_str(s) ==
    CASE s = STR_FLUORESCENCE -> Ok("Fluorescence")
      [] s = STR_ABSORBANCE   -> Ok("Absorbance")
      [] OTHER                -> Err("UnknownEnum")

(***************************************************************************)
(* PlateInfo::from_text (m5.rs 114-176).  keys is indexed from zero in the *)
(* source; key(keys, i) is keys[i], a panic when i is out of range.        *)
(***************************************************************************)
key(keys, i) == IF i < Len(keys) THEN Ok(keys[i + 1]) ELSE Panic("index out of bounds")

\* keys[i].parse()? for an unsigned type with the given maximum
field(keys, i, max) ==
    LET k == key(keys, i)
    IN  IF ~k.ok THEN k
        ELSE LET p == parse_uint(k.val, max)
             IN  IF p.ok THEN p ELSE Err("FieldParseFailure")

\* the first failure of a sequence of results evaluated in order, or None
FirstFailure(rs) ==
    IF \E i \in 1..Len(rs) : ~rs[i].ok
    THEN rs[Min({i \in 1..Len(rs) : ~rs[i].ok})]
    ELSE None

Absorbance(nm) == [abs |-> nm]

Fluorescence(ex, em) == [ex |-> ex, em |-> em]

\* mutant of rmap2: the two wavelengths are handed to the constructor swapped
rmap2_swapped(r1, r2) ==
    IF ~r1.ok THEN r1 ELSE IF ~r2.ok THEN r2 ELSE Ok([ex |-> r2.val, em |-> r1.val])

rmap2(r1, r2) == IF ~r1.ok THEN r1 ELSE IF ~r2.ok THEN r2 ELSE Ok(Fluorescence(r1.val, r2.val))

\* .take(n) ... .collect::<Result<Vec<_>, _>>(): the values, or the first error
collect_take(rs, n) ==
    LET taken == SubSeq(rs, 1, IF n < Len(rs) THEN n ELSE Len(rs))
        f     == FirstFailure(taken)
    IN  IF f # None THEN Err("FieldParseFailure")
        ELSE Ok([i \in 1..Len(taken) |-> taken[i].val])

PlateInfo(plate_size, row_start, row_span, col_start, col_span, reads, wavelengths) ==
    [plate_size |-> plate_size, row_start |-> row_start, row_span |-> row_span,
     col_start |-> col_start, col_span |-> col_span, reads |-> reads,
     wavelengths |-> wavelengths]

from_text_absorbance(keys) ==
    LET reads      == field(keys, 2, USIZE_MAX)
        row_start  == field(keys, 13, U8_MAX)
        row_span   == field(keys, 14, U8_MAX)
        col_start  == field(keys, 10, U8_MAX)
        col_span   == field(keys, 11, U8_MAX)
        plate_size == field(keys, 12, U32_MAX)
        wave_no    == field(keys, 8, USIZE_MAX)
        list       == key(keys, 9)
        scalars    == <<reads, row_start, row_span, col_start, col_span, plate_size,
                        wave_no, list>>
        f          == FirstFailure(scalars)
    IN  IF f # None THEN f
        ELSE LET toks == split_whitespace(list.val)
                 waves == collect_take(
                            [i \in 1..Len(toks) |->
                                LET p == parse_uint(toks[i], U16_MAX)
                                IN  IF p.ok THEN Ok(Absorbance(p.val)) ELSE p],
                            wave_no.val)
             IN  IF ~waves.ok THEN waves
                 ELSE Ok(PlateInfo(plate_size.val, row_start.val, row_span.val,
                                   col_start.val, col_span.val, reads.val, waves.val))

from_text_fluorescence(keys) ==
    LET reads      == field(keys, 3, USIZE_MAX)
        row_start  == field(keys, 23, U8_MAX)
        row_span   == field(keys, 24, U8_MAX)
        col_start  == field(keys, 11, U8_MAX)
        col_span   == field(keys, 12, U8_MAX)
        plate_size == field(keys, 13, U32_MAX)
        wave_no    == field(keys, 9, USIZE_MAX)
        exl        == key(keys, 14)
        eml        == key(keys, 10)
        scalars    == <<reads, row_start, row_span, col_start, col_span, plate_size,
                        wave_no, exl, eml>>
        f          == FirstFailure(scalars)
    IN  IF f # None THEN f
        ELSE LET exs == split_whitespace(exl.val)
                 ems == split_whitespace(eml.val)
                 n   == IF Len(exs) < Len(ems) THEN Len(exs) ELSE Len(ems)   \* zip
                 waves == collect_take(
                            [i \in 1..n |-> rmap2(parse_uint(exs[i], U16_MAX),
                                                  parse_uint(ems[i], U16_MAX))],
                            wave_no.val)
             IN  IF ~waves.ok THEN waves
                 ELSE Ok(PlateInfo(plate_size.val, row_start.val, row_span.val,
                                   col_start.val, col_span.val, reads.val, waves.val))

from_text(read_type, read_mode, keys) ==
    CASE read_type = "Endpoint" /\ read_mode = "Absorbance" -> from_text_absorbance(keys)
      [] read_mode = "Fluorescence" -> from_text_fluorescence(keys)
      [] OTHER -> Err("UnsupportedVariant")

total_wells_read(info) == info.row_span * info.col_span * Len(info.wavelengths)

(***************************************************************************)
(* PlateSettings::parse (m5.rs 80-100)                                     *)
(***************************************************************************)
PlateSettings_parse(s) ==
    LET cols == split(s, "\t")
        info == [i \in 1..Len(cols) |-> trim(cols[i])]
    IN  IF Len(info) < 6 THEN Err("TruncatedSettings")
        ELSE LET read_type == ReadType_from_str(info[5])
                 read_mode == ReadMode_from_str(info[6])
             IN  IF ~read_type.ok THEN read_type
                 ELSE IF ~read_mode.ok THEN read_mode
                 ELSE LET pi == from_text(read_type.val, read_mode.val,
                                          SubSeq(info, 7, Len(info)))
                      IN  IF ~pi.ok THEN pi
                          ELSE Ok([name |-> info[2], read_type |-> read_type.val,
                                   read_mode |-> read_mode.val, info |-> pi.val])

(***************************************************************************)
(* f64::from_str, reduced to the spellings the inputs of this model use:   *)
(* an optional sign, decimal digits and at most one ".", at least one      *)
(* digit.  (Exponents, "inf" and "nan" are never written into a cell       *)
(* here.)  The value is kept as sign, digits and number of decimals,       *)
(* trailing zeros of the fraction dropped.                                 *)
(***************************************************************************)
RECURSIVE StripTrailingZeros(_)
StripTrailingZeros(ds) ==
    IF ds # <<>> /\ ds[Len(ds)] = "0" THEN StripTrailingZeros(SubSeq(ds, 1, Len(ds) - 1)) ELSE ds

parse_f64(s) ==
    LET signed == s # <<>> /\ s[1] \in {"+", "-"}
        body   == IF signed THEN Tail(s) ELSE s
        dots   == {i \in 1..Len(body) : body[i] = "."}
    IN  IF \/ \E i \in 1..Len(body) : body[i] \notin Digits \cup {"."}
           \/ Cardinality(dots) > 1
           \/ Len(body) - Cardinality(dots) = 0
        THEN Err("ParseFloatError")
        ELSE LET d    == IF dots = {} THEN Len(body) + 1 ELSE Min(dots)
                 int  == SubSeq(body, 1, d - 1)
                 frac == StripTrailingZeros(SubSeq(body, d + 1, Len(body)))
             IN  Ok([neg |-> signed /\ s[1] = "-",
                     digits |-> StripZeros(int \o frac),
                     decimals |-> Len(frac)])

\* str::splitn(3, ':'): at most three pieces, the third keeps the rest
splitn3(s) ==
    LET cut == {i \in 1..Len(s) : s[i] = ":"}
    IN  IF cut = {} THEN <<s>>
        ELSE LET a    == Min(cut)
                 rest == SubSeq(s, a + 1, Len(s))
                 cut2 == {i \in 1..Len(rest) : rest[i] = ":"}
             IN  IF cut2 = {} THEN <<SubSeq(s, 1, a - 1), rest>>
                 ELSE <<SubSeq(s, 1, a - 1), SubSeq(rest, 1, Min(cut2) - 1),
                        SubSeq(rest, Min(cut2) + 1, Len(rest))>>

\* parse_time (m5.rs 279-295); the sum h + m/60 + s/3600 is kept symbolic
parse_time(s) ==
    LET it == splitn3(s)
        h  == parse_f64(it[1])
        m  == IF Len(it) >= 2 THEN parse_f64(it[2]) ELSE Err("No minutes in time")
        sec == IF Len(it) >= 3 THEN parse_f64(it[3]) ELSE Ok("zero")
    IN  IF ~h.ok THEN h
        ELSE IF ~m.ok THEN m
        ELSE IF ~sec.ok THEN sec
        ELSE Ok([h |-> h.val, m |-> m.val, s |-> sec.val])

\* ReadInfo::parse_cols (m5.rs 226-238)
parse_cols(c1, c2, rtype) ==
    LET unique == IF rtype = "Endpoint" THEN Ok("None") ELSE parse_time(c1)
        temp   == parse_f64(c2)
    IN  IF ~unique.ok THEN Err("FieldParseFailure")
        ELSE IF ~temp.ok THEN Err("FieldParseFailure")
        ELSE Ok([temp |-> temp.val, unique |-> unique.val])

(***************************************************************************)
(* parse_plate (m5.rs 297-371)                                             *)
(***************************************************************************)
\* lines 304-311: <<total_rows, total_cols>>
plate_dims(plate_size) ==
    CASE plate_size = 384 -> Ok(<<16, 24>>)
      [] plate_size = 96  -> Ok(<<8, 12>>)
      [] OTHER            -> Err("UnsupportedPlateSize")

WellValue(wavelength, row, col, value) ==
    [wavelength |-> wavelength, well |-> <<row, col>>, value |-> value]

\* output.rs 42-50: Cache::new; only the well-name map is modelled
Cache_new == [wellname |-> <<>>]

\* slice::chunks(n): consecutive chunks of n elements, the last one may be shorter
RECURSIVE chunks(_, _)
chunks(xs, n) ==
    IF xs = <<>> THEN <<>>
    ELSE IF Len(xs) <= n THEN <<xs>>
    ELSE <<SubSeq(xs, 1, n)>> \o chunks(SubSeq(xs, n + 1, Len(xs)), n)

RECURSIVE concat(_)
concat(ss) == IF ss = <<>> THEN <<>> ELSE Head(ss) \o concat(Tail(ss))

\* mutant of window_values: a blank cell is emitted as a zero instead of dropped
window_values_zero(values, wavelength, row, total_cols) ==
    IF Len(values) < total_cols THEN <<Panic("split_at: mid > len")>>
    ELSE LET cells == [c \in 1..total_cols |-> trim(values[c])]
             one(c) == LET v == parse_f64(IF cells[c] = <<>> THEN <<"0">> ELSE cells[c])
                       IN  IF v.ok THEN <<Ok(WellValue(wavelength, row, c - 1, v.val))>>
                           ELSE <<Err("FieldParseFailure")>>
         IN  concat([c \in 1..total_cols |-> one(c)])

\* lines 337-356 for one (window, wavelength) pair: split_at(total_cols), which
\* panics on a window shorter than total_cols, then one result per non-empty
\* trimmed data cell, in column order
window_values(values, wavelength, row, total_cols) ==
    IF Len(values) < total_cols THEN <<Panic("split_at: mid > len")>>
    ELSE LET cells == [c \in 1..total_cols |-> trim(values[c])]
             one(c) == IF cells[c] = <<>> THEN <<>>
                       ELSE LET v == parse_f64(cells[c])
                            IN  IF v.ok THEN <<Ok(WellValue(wavelength, row, c - 1, v.val))>>
                                ELSE <<Err("FieldParseFailure")>>
         IN  concat([c \in 1..total_cols |-> one(c)])

\* mutant of row_values: the windows are cut without the spacer column
row_values_nospacer(cols, wavelengths, row, total_cols) ==
    LET wins == chunks(cols, total_cols)
        n    == IF Len(wins) < Len(wavelengths) THEN Len(wins) ELSE Len(wavelengths)
        rs   == concat([i \in 1..n |-> window_values(wins[i], wavelengths[i], row, total_cols)])
        f    == FirstFailure(rs)
    IN  IF f # None THEN f ELSE Ok([i \in 1..Len(rs) |-> rs[i].val])

\* lines 332-361: the well values of one grid row, evaluated lazily in order
row_values(cols, wavelengths, row, total_cols) ==
    LET wins == chunks(cols, total_cols + 1)
        n    == IF Len(wins) < Len(wavelengths) THEN Len(wins) ELSE Len(wavelengths)  \* zip
        rs   == concat([i \in 1..n |-> window_values(wins[i], wavelengths[i], row, total_cols)])
        f    == FirstFailure(rs)
    IN  IF f # None THEN f ELSE Ok([i \in 1..Len(rs) |-> rs[i].val])

\* lines 319-361 for the line in the buffer: <<read_info, values of the row>>
parse_row(line_buf, row, info, st, total_cols) ==
    LET line == split(line_buf, "\t")
    IN  IF Len(line) < 2 THEN Err("expected info col 2")
        ELSE LET ri == IF info = None
                       THEN parse_cols(line[1], line[2], st.read_type)
                       ELSE Ok(info)
             IN  IF ~ri.ok THEN ri
                 ELSE LET vs == row_values(SubSeq(line, 3, Len(line)), st.info.wavelengths,
                                           row, total_cols)
                      IN  IF ~vs.ok THEN vs ELSE Ok(<<ri.val, vs.val>>)

(***************************************************************************)
(* The decoder as a state machine: M5File::read_and_parse (m5.rs 11-25),   *)
(* PlateBlock::from_rdr (35-67) and parse_plate (297-371), one step per    *)
(* line read.  `input` is the text behind rdr, a sequence of lines.        *)
(***************************************************************************)
STR_TEMP_C == <<"T", "e", "m", "p", "e", "r", "a", "t", "u", "r", "e", "(", "deg", "C", ")">>

STR_END == <<"~", "E", "n", "d">>

\* BufRead::read_line: the next line, or nothing at the end of the input
next_line(input) == IF pos < Len(input) THEN input[pos + 1] ELSE <<>>

advance(input) == IF pos < Len(input) THEN pos + 1 ELSE pos

\* the context added on line 21: the failure with the 1-based block index
block_error(e) == [ok |-> FALSE, err |-> e.err, block |-> Len(blocks) + 1]

\* mutant of Fails: the failing block is skipped and decoding goes on
Fails_skip(e) ==
    /\ pc' = "settings"
    /\ result' = result

\* a failure inside from_rdr ends read_and_parse (the `?`s and the collect of
\* line 23); a panic aborts the process
Fails(e) ==
    /\ pc' = pc
    /\ result' = IF IsPanic(e) THEN e ELSE block_error(e)

\* m5.rs 12-16 and the empty case of 18-24
ReadHeader(input) ==
    /\ pc = "header"
    /\ result = None
    /\ LET line == buf \o next_line(input)
           n    == get_block_count(line)
       IN  /\ pos' = advance(input)
           /\ IF ~n.ok
              THEN /\ pc' = pc
                   /\ result' = n
                   /\ buf' = line
                   /\ UNCHANGED block_count
              ELSE /\ block_count' = n.val
                   /\ buf' = <<>>
                   /\ pc' = IF n.val = 0 THEN "done" ELSE "settings"
                   /\ result' = IF n.val = 0 THEN Ok(<<>>) ELSE result
    /\ UNCHANGED <<file, blocks, settings, data, r, output, read_info, block_start,
                   read_start, arg, ret,
                   cache, wtr>>

\* mutant of ReadSettings: the clear of line 39 is left out
ReadSettings_noclear(input) ==
    /\ pc = "settings"
    /\ result = None
    /\ block_start' = pos
    /\ LET line == buf \o next_line(input)
           st   == PlateSettings_parse(line)
       IN  /\ pos' = advance(input)
           /\ IF ~st.ok
              THEN /\ Fails(st)
                   /\ buf' = line
                   /\ UNCHANGED settings
              ELSE /\ settings' = st.val
                   /\ buf' = line
                   /\ pc' = "unit"
                   /\ UNCHANGED result
    /\ UNCHANGED <<file, block_count, blocks, data, r, output, read_info, read_start, arg, ret,
                   cache, wtr>>

\* m5.rs 36-39
ReadSettings(input) ==
    /\ pc = "settings"
    /\ result = None
    /\ block_start' = pos
    /\ LET line == buf \o next_line(input)
           st   == PlateSettings_parse(line)
       IN  /\ pos' = advance(input)
           /\ IF ~st.ok
              THEN /\ Fails(st)
                   /\ buf' = line
                   /\ UNCHANGED settings
              ELSE /\ settings' = st.val
                   /\ buf' = <<>>
                   /\ pc' = "unit"
                   /\ UNCHANGED result
    /\ UNCHANGED <<file, block_count, blocks, data, r, output, read_info, read_start, arg, ret,
                   cache, wtr>>

Contains(s, sub) ==
    \E i \in 0..(Len(s) - Len(sub)) : SubSeq(s, i + 1, i + Len(sub)) = sub

\* mutant of unit_header: a second column that contains the unit is accepted
unit_header_contains(line) ==
    LET cols == split(line, "\t")
    IN  IF Len(cols) < 2 THEN Err("UnsupportedUnit")
        ELSE IF Contains(cols[2], STR_TEMP_C) THEN Ok("unit")
        ELSE Err("UnsupportedUnit")

\* m5.rs 44-48: the check of the unit header line
unit_header(line) ==
    LET cols == split(line, "\t")
    IN  IF Len(cols) < 2 THEN Err("UnsupportedUnit")           \* None: "Couldn't read ..."
        ELSE IF cols[2] = STR_TEMP_C THEN Ok("unit")
        ELSE Err("UnsupportedUnit")                            \* Some(unk)

\* m5.rs 40-53, and line 58 when the block declares no read
ReadUnitHeader(input) ==
    /\ pc = "unit"
    /\ result = None
    /\ LET line == buf \o next_line(input)
           u    == unit_header(line)
       IN  /\ pos' = advance(input)
           /\ IF ~u.ok
              THEN /\ Fails(u)
                   /\ buf' = line
                   /\ UNCHANGED data
              ELSE /\ buf' = <<>>
                   /\ data' = <<>>
                   /\ pc' = IF settings.info.reads = 0 THEN "end" ELSE "plate"
                   /\ UNCHANGED result
    /\ UNCHANGED <<file, block_count, blocks, settings, r, output, read_info, block_start,
                   read_start, arg, ret,
                   cache, wtr>>

\* m5.rs 302-313: entry of parse_plate, no line is read
StartPlate ==
    /\ pc = "plate"
    /\ result = None
    /\ LET dims == plate_dims(settings.info.plate_size)
       IN  IF ~dims.ok
           THEN /\ Fails(dims)
                /\ UNCHANGED <<r, output, read_info>>
           ELSE /\ pc' = "row"
                /\ r' = 0
                /\ output' = <<>>
                /\ read_info' = None
                /\ UNCHANGED result
    /\ read_start' = pos
    /\ UNCHANGED <<file, pos, buf, block_count, blocks, settings, data, block_start, arg, ret,
                   cache, wtr>>

\* m5.rs 315-362: one iteration of the row loop
ReadRow(input) ==
    /\ pc = "row"
    /\ result = None
    /\ LET dims == plate_dims(settings.info.plate_size).val
           line == next_line(input)                       \* buf.clear(); read_line
           row  == parse_row(line, r, read_info, settings, dims[2])
       IN  /\ pos' = advance(input)
           /\ buf' = line
           /\ IF ~row.ok
              THEN /\ Fails(row)
                   /\ UNCHANGED <<r, output, read_info>>
              ELSE /\ read_info' = row.val[1]
                   /\ output' = output \o row.val[2]
                   /\ r' = r + 1
                   /\ pc' = IF r + 1 = dims[1] THEN "spacer" ELSE "row"
                   /\ UNCHANGED result
    /\ UNCHANGED <<file, block_count, blocks, settings, data, block_start, read_start, arg, ret,
                   cache, wtr>>

\* mutant of ReadSpacer: the trailing spacer line is not read
ReadSpacer_nospacer(input) ==
    /\ pc = "spacer"
    /\ result = None
    /\ pos' = pos
    /\ IF read_info = None
       THEN /\ Fails(Err("never found read info"))
            /\ buf' = next_line(input)
            /\ UNCHANGED data
       ELSE /\ data' = Append(data, <<read_info, output>>)
            /\ IF Len(data') = settings.info.reads
               THEN pc' = "end" /\ buf' = <<>>
               ELSE pc' = "plate" /\ buf' = next_line(input)
            /\ UNCHANGED result
    /\ UNCHANGED <<file, block_count, blocks, settings, r, output, read_info, block_start,
                   read_start, arg, ret,
                   cache, wtr>>

\* m5.rs 364-370, the push on line 56 and, after the last read, line 58
ReadSpacer(input) ==
    /\ pc = "spacer"
    /\ result = None
    /\ pos' = advance(input)
    /\ IF read_info = None
       THEN /\ Fails(Err("never found read info"))
            /\ buf' = next_line(input)
            /\ UNCHANGED data
       ELSE /\ data' = Append(data, <<read_info, output>>)
            /\ IF Len(data') = settings.info.reads
               THEN pc' = "end" /\ buf' = <<>>
               ELSE pc' = "plate" /\ buf' = next_line(input)
            /\ UNCHANGED result
    /\ UNCHANGED <<file, block_count, blocks, settings, r, output, read_info, block_start,
                   read_start, arg, ret,
                   cache, wtr>>

\* mutant of ReadSentinel: the line is compared without trimming
ReadSentinel_notrim(input) ==
    /\ pc = "end"
    /\ result = None
    /\ LET line == buf \o next_line(input)
       IN  /\ pos' = advance(input)
           /\ IF line # STR_END
              THEN /\ Fails(Err("MissingSentinel"))
                   /\ buf' = line
                   /\ UNCHANGED <<blocks, settings, data>>
              ELSE /\ buf' = <<>>
                   /\ blocks' = Append(blocks, [settings |-> settings, data |-> data])
                   /\ settings' = None           \* the locals of from_rdr are gone
                   /\ data' = <<>>
                   /\ IF Len(blocks') = block_count
                      THEN pc' = "done" /\ result' = Ok(blocks')
                      ELSE pc' = "settings" /\ UNCHANGED result
    /\ UNCHANGED <<file, block_count, r, output, read_info, block_start, read_start, arg, ret,
                   cache, wtr>>

\* m5.rs 60-66 and the collect of 18-24
ReadSentinel(input) ==
    /\ pc = "end"
    /\ result = None
    /\ LET line == buf \o next_line(input)
       IN  /\ pos' = advance(input)
           /\ IF trim(line) # STR_END
              THEN /\ Fails(Err("MissingSentinel"))
                   /\ buf' = line
                   /\ UNCHANGED <<blocks, settings, data>>
              ELSE /\ buf' = <<>>
                   /\ blocks' = Append(blocks, [settings |-> settings, data |-> data])
                   /\ settings' = None           \* the locals of from_rdr are gone
                   /\ data' = <<>>
                   /\ IF Len(blocks') = block_count
                      THEN pc' = "done" /\ result' = Ok(blocks')
                      ELSE pc' = "settings" /\ UNCHANGED result
    /\ UNCHANGED <<file, block_count, r, output, read_info, block_start, read_start, arg, ret,
                   cache, wtr>>

(***************************************************************************)
(* Input texts.  The builders write a file the way the instrument lays it  *)
(* out: tab-separated columns, "\n" at the end of each line.               *)
(***************************************************************************)
DigitChar(d) == <<"0", "1", "2", "3", "4", "5", "6", "7", "8", "9">>[d + 1]

\* the decimal numeral of n, as Display writes it
RECURSIVE Dec(_)
Dec(n) == IF n < 10 THEN <<DigitChar(n)>> ELSE Dec(n \div 10) \o <<DigitChar(n % 10)>>

RECURSIVE Join(_, _)
Join(toks, sep) ==
    IF toks = <<>> THEN <<>>
    ELSE IF Len(toks) = 1 THEN toks[1]
    ELSE toks[1] \o <<sep>> \o Join(Tail(toks), sep)

Line(cols) == Join(cols, "\t") \o <<"\n">>

Filler == <<"x">>

\* a settings row: six leading columns, then the keys
SettingsLine(read_type, read_mode, keys) ==
    Line(<<<<"P", "l", "a", "t", "e", ":">>, <<"P", "1">>, <<"1", ".", "3">>, Filler,
           read_type, read_mode>> \o keys)

\* the keys of an Endpoint/Absorbance settings row
AbsKeys(reads, plate, row_span, col_span, wave_no, list) ==
    [i \in 1..15 |->
        CASE i - 1 = 2  -> Dec(reads)
          [] i - 1 = 8  -> Dec(wave_no)
          [] i - 1 = 9  -> list
          [] i - 1 = 10 -> Dec(1)
          [] i - 1 = 11 -> Dec(col_span)
          [] i - 1 = 12 -> Dec(plate)
          [] i - 1 = 13 -> Dec(1)
          [] i - 1 = 14 -> Dec(row_span)
          [] OTHER      -> Filler]

\* the keys of a Fluorescence settings row
FlKeys(reads, plate, row_span, col_span, wave_no, exs, ems) ==
    [i \in 1..25 |->
        CASE i - 1 = 3  -> Dec(reads)
          [] i - 1 = 9  -> Dec(wave_no)
          [] i - 1 = 10 -> ems
          [] i - 1 = 11 -> Dec(1)
          [] i - 1 = 12 -> Dec(col_span)
          [] i - 1 = 13 -> Dec(plate)
          [] i - 1 = 14 -> exs
          [] i - 1 = 23 -> Dec(1)
          [] i - 1 = 24 -> Dec(row_span)
          [] OTHER      -> Filler]

UnitLine(unit) == Line(<<<<>>, unit, Dec(1), Dec(2)>>)

\* one wavelength window of a grid row: the data cells, blank up to total_cols,
\* then the spacer column
Window(cells, total_cols, spacer) ==
    [c \in 1..(total_cols + 1) |->
        IF c <= Len(cells) THEN cells[c] ELSE IF c = total_cols + 1 THEN spacer ELSE <<>>]

GridRow(c1, c2, windows) == Line(<<c1, c2>> \o concat(windows))

V05 == <<"0", ".", "5">>

V12 == <<"1", ".", "2">>

V03 == <<"0", ".", "3">>

V09 == <<"0", ".", "9">>

TEMP == <<"2", "5", ".", "0">>

TIME == <<"0", ":", "3", "0">>

L450 == <<"4", "5", "0">>

L450_650 == <<"4", "5", "0", " ", "6", "5", "0">>

L485_530 == <<"4", "8", "5", " ", "5", "3", "0">>

L520_590 == <<"5", "2", "0", " ", "5", "9", "0">>

\* total_rows grid rows: the given first rows, then blank rows, nw windows each
Grid(first, total_rows, total_cols, nw) ==
    [i \in 1..total_rows |->
        IF i <= Len(first) THEN first[i]
        ELSE GridRow(<<>>, <<>>, [w \in 1..nw |-> Window(<<>>, total_cols, <<>>)])]

SpacerLine == <<"\n">>

EndLine == Line(<<STR_END>>)

\* an Endpoint/Absorbance read of a 96-well plate, one wavelength, 2 x 2 wells filled
AbsRead ==
    Grid(<<GridRow(<<>>, TEMP, <<Window(<<V05, V12>>, 12, <<>>)>>),
           GridRow(<<>>, <<>>, <<Window(<<V03, V09>>, 12, <<>>)>>)>>, 8, 12, 1)
    \o <<SpacerLine>>

\* a WellScan/Fluorescence read of a 384-well plate, two wavelengths
FlRead ==
    Grid(<<GridRow(TIME, TEMP, <<Window(<<V05>>, 24, <<>>), Window(<<V12>>, 24, <<>>)>>)>>,
         16, 24, 2)
    \o <<SpacerLine>>

AbsSettings(reads, plate, row_span, col_span) ==
    SettingsLine(STR_ENDPOINT, STR_ABSORBANCE, AbsKeys(reads, plate, row_span, col_span, 1, L450))

\* The block texts a file is made of.  good: the block follows the format
\* beyond doubt (settings row, unit header with exactly the unit in its second
\* column, the declared reads on a supported plate, "~End").
BlockTexts == <<
    \* 1: one absorbance read
    [good |-> TRUE,
     lines |-> <<AbsSettings(1, 96, 2, 2), UnitLine(STR_TEMP_C)>> \o AbsRead \o <<EndLine>>],
    \* 2: two absorbance reads
    [good |-> TRUE,
     lines |-> <<AbsSettings(2, 96, 2, 2), UnitLine(STR_TEMP_C)>> \o AbsRead \o AbsRead
               \o <<EndLine>>],
    \* 3: no read
    [good |-> TRUE,
     lines |-> <<AbsSettings(0, 96, 2, 2), UnitLine(STR_TEMP_C), EndLine>>],
    \* 4: a well-scan fluorescence read of a 384-well plate
    [good |-> TRUE,
     lines |-> <<SettingsLine(STR_WELL_SCAN, STR_FLUORESCENCE,
                              FlKeys(1, 384, 1, 1, 2, L485_530, L520_590)),
                 UnitLine(STR_TEMP_C)>> \o FlRead \o <<EndLine>>],
    \* 5: an unsupported plate size, no read
    [good |-> FALSE,
     lines |-> <<AbsSettings(0, 1536, 2, 2), UnitLine(STR_TEMP_C), EndLine>>],
    \* 6: an unsupported plate size, one read
    [good |-> FALSE,
     lines |-> <<AbsSettings(1, 1536, 2, 2), UnitLine(STR_TEMP_C)>> \o AbsRead \o <<EndLine>>],
    \* 7: the sentinel is not "~End"
    [good |-> FALSE,
     lines |-> <<AbsSettings(1, 96, 2, 2), UnitLine(STR_TEMP_C)>> \o AbsRead
               \o <<Line(<<<<"E", "n", "d">>>>)>>],
    \* 8: another temperature unit
    [good |-> FALSE,
     lines |-> <<AbsSettings(0, 96, 2, 2),
                 UnitLine(<<"T", "e", "m", "p", "e", "r", "a", "t", "u", "r", "e", "(", "deg", "F", ")">>),
                 EndLine>>],
    \* 9: the unit column holds the unit and more
    [good |-> FALSE,
     lines |-> <<AbsSettings(0, 96, 2, 2), UnitLine(STR_TEMP_C \o <<" ">>), EndLine>>],
    \* 10: the unit header has a single column
    [good |-> FALSE,
     lines |-> <<AbsSettings(0, 96, 2, 2), Line(<<<<"x">>>>), EndLine>>],
    \* 11: WellScan with Absorbance
    [good |-> FALSE,
     lines |-> <<SettingsLine(STR_WELL_SCAN, STR_ABSORBANCE, AbsKeys(0, 96, 2, 2, 1, L450)),
                 UnitLine(STR_TEMP_C), EndLine>>],
    \* 12: a read that ends with the input: no spacer line, no sentinel
    [good |-> FALSE,
     lines |-> <<AbsSettings(1, 96, 2, 2), UnitLine(STR_TEMP_C)>> \o SubSeq(AbsRead, 1, 8)],
    \* 13: more wells filled than row_span x col_span, one window for two
    \* wavelengths, spacer column and spacer line not blank
    [good |-> FALSE,
     lines |-> <<SettingsLine(STR_ENDPOINT, STR_ABSORBANCE, AbsKeys(1, 96, 1, 1, 2, L450_650)),
                 UnitLine(STR_TEMP_C)>>
               \o Grid(<<GridRow(<<>>, TEMP, <<Window(<<V05, V12, V03>>, 12, <<"x">>)>>)>>, 8, 12, 1)
               \o <<Line(<<<<"x">>>>), Line(<<STR_END, <<>>>>)>>],
    \* 14: a grid row shorter than a window
    [good |-> FALSE,
     lines |-> <<AbsSettings(1, 96, 2, 2), UnitLine(STR_TEMP_C),
                 Line(<<<<>>, TEMP, V05, V12>>)>> \o SubSeq(AbsRead, 2, 9) \o <<EndLine>>],
    \* 15: the unit is the last column of the unit header
    [good |-> FALSE,
     lines |-> <<AbsSettings(0, 96, 2, 2), Line(<<<<>>, STR_TEMP_C>>), EndLine>>]
>>

MaxBlocks == 2

Files ==
    [count : {Line(<<MAGIC, Dec(n)>>) : n \in 0..MaxBlocks} \cup {Line(<<<<"#", "#">>, Dec(1)>>)},
     blocks : UNION {[1..n -> 1..Len(BlockTexts)] : n \in 0..MaxBlocks}]

\* the lines of a file: the header line, then the lines of its blocks
Lines(f) == <<f.count>> \o concat([i \in 1..Len(f.blocks) |-> BlockTexts[f.blocks[i]].lines])

Init ==
    /\ file \in Files
    /\ pos = 0
    /\ buf = <<>>
    /\ pc = "header"
    /\ block_count = 0
    /\ blocks = <<>>
    /\ settings = None
    /\ data = <<>>
    /\ r = 0
    /\ output = <<>>
    /\ read_info = None
    /\ result = None
    /\ block_start = 0
    /\ read_start = 0
    /\ arg = None
    /\ ret = None
    /\ cache = Cache_new
    /\ wtr = <<>>

Next ==
    \/ ReadHeader(Lines(file))
    \/ ReadSettings(Lines(file))
    \/ ReadUnitHeader(Lines(file))
    \/ StartPlate
    \/ ReadRow(Lines(file))
    \/ ReadSpacer(Lines(file))
    \/ ReadSentinel(Lines(file))

Spec == Init /\ [][Next]_vars

(***************************************************************************)
(* Properties of the file and block assemblers.                            *)
(***************************************************************************)
input == Lines(file)

\* line i of the input, 1-based; empty beyond the end
LineAt(i) == IF i >= 1 /\ i <= Len(input) THEN input[i] ELSE <<>>

\* parse_plate has just returned a read to from_rdr
AfterRead == result = None /\ pc \in {"plate", "end"} /\ Len(data) >= 1

\* from_rdr has just returned a block to read_and_parse
AfterBlock == Len(blocks) >= 1 /\ (pc = "done" \/ (pc = "settings" /\ result = None))

LastBlock == blocks[Len(blocks)]

\* the settings row of the i-th block text of the file, as the format declares it
Declared(i) == PlateSettings_parse(BlockTexts[file.blocks[i]].lines[1]).val

\* C1: read_and_parse assembles the blocks in input order, stops at the first
\* block that fails and returns that failure without a Document; it returns a
\* Document only when all block_count blocks assembled, and the Document then
\* holds exactly these blocks in input order.
C1_AllOrNothing ==
    /\ Len(blocks) <= block_count
    /\ Len(blocks) <= Len(file.blocks)
    /\ \A i \in 1..Len(blocks) :
          /\ blocks[i].settings = Declared(i)
          /\ Len(blocks[i].data) = Declared(i).info.reads
    /\ (result # None /\ result.ok) =>
          /\ pc = "done"
          /\ Len(result.val) = block_count
          /\ result.val = blocks
    /\ (result # None /\ ~result.ok) =>
          /\ "val" \notin DOMAIN result
          /\ pc # "done"
          /\ pc # "header" => /\ Len(blocks) < block_count
                              /\ IsPanic(result) \/ result.block = Len(blocks) + 1
    /\ pc = "done" => result # None /\ result.ok

C1_Witness ==
    /\ result # None /\ ~result.ok /\ "block" \in DOMAIN result
    /\ result.block = 2 /\ Len(blocks) = 1 /\ block_count = 2

\* the number of well-formed blocks the file holds
WellFormedBlocks == Cardinality({i \in 1..Len(file.blocks) : BlockTexts[file.blocks[i]].good})

\* C2 (as claimed): a file whose number of well-formed blocks differs from the
\* declared block count is never decoded to a Document.
C2_CountMismatchFails ==
    (result # None /\ result.ok) => WellFormedBlocks = block_count

\* C3 (as claimed): a read consumes row_span + 1 lines, a block
\* 2 + read_count * (row_span + 1) + 1 lines.
C3_RowSpanLines ==
    /\ AfterRead => pos - read_start = settings.info.row_span + 1
    /\ AfterBlock =>
          pos - block_start = 2 + LastBlock.settings.info.reads
                                    * (LastBlock.settings.info.row_span + 1) + 1

\* the number of grid rows of a plate of the given size
PlateRows(plate_size) == IF plate_size = 384 THEN 16 ELSE 8

PlateCols(plate_size) == IF plate_size = 384 THEN 24 ELSE 12

\* C3 (amended): a read consumes, in input order, the 16 (384 wells) or 8 (96
\* wells) grid rows of the plate and one trailing line if the input has one;
\* an assembled block consumes 2 + read_count * (rows + 1) + 1 lines.
C3_PlateRowsLines ==
    /\ AfterRead =>
          LET rows == PlateRows(settings.info.plate_size)
          IN  /\ read_start + rows <= Len(input)
              /\ pos - read_start = rows + (IF read_start + rows < Len(input) THEN 1 ELSE 0)
    /\ AfterBlock =>
          LET st == LastBlock.settings.info
          IN  pos - block_start = 2 + st.reads * (PlateRows(st.plate_size) + 1) + 1

C3_Witness ==
    /\ AfterBlock
    /\ Len(LastBlock.data) = 2
    /\ LastBlock.settings.info.row_span = 2
    /\ pos - block_start = 21

\* C4: once the settings row, the unit header and every read of a block are
\* parsed, the block is returned exactly when the next line trims to "~End";
\* any other line there fails the block with MissingSentinel.
C4_Sentinel ==
    [][(pc = "end" /\ result = None) =>
          IF trim(LineAt(pos + 1)) = STR_END
          THEN /\ blocks' = Append(blocks, [settings |-> settings, data |-> data])
               /\ result' = None \/ result'.ok
          ELSE /\ blocks' = blocks
               /\ result' = [ok |-> FALSE, err |-> "MissingSentinel", block |-> Len(blocks) + 1]
      ]_vars

C4_Witness ==
    /\ pc = "end" /\ result # None /\ ~result.ok
    /\ result.err = "MissingSentinel"
    /\ Len(data) = settings.info.reads /\ Len(data) >= 1

\* C8 (as claimed): no block declaring a plate size other than 96 or 384 is
\* ever assembled, whatever its read count.
C8_PlateSizeChecked ==
    \A i \in 1..Len(blocks) : blocks[i].settings.info.plate_size \in {96, 384}

\* the columns of the unit header line of the block being assembled
UnitCols == split(LineAt(block_start + 2), "\t")

PastUnit == pc \in {"plate", "row", "spacer", "end"}

FailedAtUnit == pc = "unit" /\ result # None

\* C9 (as claimed): the unit header is accepted if and only if its second
\* column contains "Temperature(degC)".
C9_UnitSubstring ==
    /\ PastUnit => Len(UnitCols) >= 2 /\ Contains(UnitCols[2], STR_TEMP_C)
    /\ FailedAtUnit => ~(Len(UnitCols) >= 2 /\ Contains(UnitCols[2], STR_TEMP_C))

\* C9 (amended): the unit header is accepted if and only if its second column
\* is exactly "Temperature(degC)" (a second column that ends the line carries
\* the line terminator and is rejected); otherwise the block fails with
\* UnsupportedUnit and no grid line of the block is consumed.
C9_UnitExact ==
    /\ PastUnit => Len(UnitCols) >= 2 /\ UnitCols[2] = STR_TEMP_C
    /\ FailedAtUnit =>
          /\ ~(Len(UnitCols) >= 2 /\ UnitCols[2] = STR_TEMP_C)
          /\ result = [ok |-> FALSE, err |-> "UnsupportedUnit", block |-> Len(blocks) + 1]
          /\ pos <= block_start + 2

C9_Witness ==
    /\ FailedAtUnit
    /\ Len(UnitCols) >= 2 /\ Contains(UnitCols[2], STR_TEMP_C)

(***************************************************************************)
(* Properties of the read-grid parser inside a file.                       *)
(***************************************************************************)
\* the well values of the read parse_plate has just returned
LastWells == data[Len(data)][2]

\* the data cells of the raw grid of that read that are not blank, as
\* <<row, window, column>>, for a grid of rows x cols cells per wavelength
FilledCells(rows, cols, nw) ==
    UNION {LET cs == split(LineAt(read_start + i), "\t")
           IN  {<<i, w, c>> : w \in 1..nw, c \in 1..cols} \cap
               {x \in (1..rows) \X (1..nw) \X (1..cols) :
                   /\ x[1] = i
                   /\ 2 + (x[2] - 1) * (cols + 1) + x[3] <= Len(cs)
                   /\ trim(cs[2 + (x[2] - 1) * (cols + 1) + x[3]]) # <<>>}
           : i \in 1..rows}

\* C5 (as claimed): a read emits at most row_span * col_span * wavelengths.len()
\* WellValues, and exactly that product minus the blank cells of the raw grid
\* (counted, in the claim's favour, over the row_span x col_span corner only).
C5_SpanProduct ==
    AfterRead =>
        LET info   == settings.info
            cols   == PlateCols(info.plate_size)
            nw     == Len(info.wavelengths)
            corner == {x \in FilledCells(PlateRows(info.plate_size), cols, nw) :
                          x[1] <= info.row_span /\ x[3] <= info.col_span}
            blank  == info.row_span * info.col_span * nw - Cardinality(corner)
        IN  /\ Len(LastWells) <= info.row_span * info.col_span * nw
            /\ Len(LastWells) = info.row_span * info.col_span * nw - blank

\* C5 (amended): a read emits at most total_rows * total_cols *
\* wavelengths.len() WellValues, total_rows x total_cols being the grid of the
\* plate size (8 x 12 or 16 x 24), and exactly that product minus the data
\* cells that are blank or absent in the raw grid.
C5_PlateProduct ==
    AfterRead =>
        LET info  == settings.info
            rows  == PlateRows(info.plate_size)
            cols  == PlateCols(info.plate_size)
            nw    == Len(info.wavelengths)
            blank == rows * cols * nw - Cardinality(FilledCells(rows, cols, nw))
        IN  /\ Len(LastWells) <= rows * cols * nw
            /\ Len(LastWells) = rows * cols * nw - blank

C5_Witness ==
    /\ AfterRead
    /\ Len(LastWells) = 3
    /\ total_wells_read(settings.info) = 2

(***************************************************************************)
(* Function-level specifications: the input of one function is drawn from  *)
(* a bounded set, the single step applies the function.  The decoder's     *)
(* own variables stay idle.                                                *)
(***************************************************************************)
Idle ==
    /\ file = [count |-> <<>>, blocks |-> <<>>]
    /\ pos = 0
    /\ buf = <<>>
    /\ block_count = 0
    /\ blocks = <<>>
    /\ settings = None
    /\ data = <<>>
    /\ r = 0
    /\ output = <<>>
    /\ read_info = None
    /\ result = None
    /\ block_start = 0
    /\ read_start = 0
    /\ cache = Cache_new
    /\ wtr = <<>>

IdleVars == <<file, pos, buf, pc, block_count, blocks, settings, data, r, output,
              read_info, result, block_start, read_start, arg, cache, wtr>>

(***************************************************************************)
(* get_block_count on one header line                                      *)
(***************************************************************************)
MaxCount == 40

\* the counts written into header lines: small ones and the edges of u16
CountValues == (0..MaxCount) \cup {255, 256, 65534, 65535, 65536, 70000, 99999, 100000}

\* first tokens that are not the magic
NotMagic == {<<"#", "#", "B", "L", "O", "C", "K", "S">>, MAGIC \o <<"x">>,
             <<"#", "B", "L", "O", "C", "K", "S", "=">>}

\* second tokens that are not decimal numerals
NotNumeral == {<<"a", "b", "c">>, <<"-", "1">>, <<"1", ".", "5">>, <<"1", "x">>}

\* header lines with what their second token denotes: n, the number written
\* there, or -1 when there is no second token or it is not a numeral
HeaderLines ==
    {[line |-> Line(<<first, Dec(n)>>), n |-> n] : first \in {MAGIC} \cup NotMagic, n \in CountValues}
    \cup {[line |-> Join(<<MAGIC, Dec(n)>>, " "), n |-> n] : n \in CountValues}
    \cup {[line |-> Line(<<first, t>>), n |-> -1] : first \in {MAGIC} \cup NotMagic, t \in NotNumeral}
    \cup {[line |-> Line(<<first>>), n |-> -1] : first \in {MAGIC} \cup NotMagic}
    \cup {[line |-> Line(<<MAGIC, <<>>>>), n |-> -1], [line |-> <<>>, n |-> -1],
          [line |-> <<"\n">>, n |-> -1]}

InitCount ==
    /\ Idle
    /\ pc = "get_block_count"
    /\ arg \in HeaderLines
    /\ ret = None

CallGetBlockCount ==
    /\ pc = "get_block_count"
    /\ ret = None
    /\ ret' = get_block_count(arg.line)
    /\ UNCHANGED IdleVars

NextCount == CallGetBlockCount

SpecCount == InitCount /\ [][NextCount]_vars

\* C10 (as claimed): "##BLOCKS=<tab>n<newline>" with 0 <= n <= 65535 gives n;
\* a first token other than the magic gives MissingMagic; the magic followed
\* by no second token, a non-integer or a number beyond 65535 gives
\* MalformedCount.
C10_HeaderCount ==
    (pc = "get_block_count" /\ ret # None) =>
        LET toks == split_whitespace(arg.line)
        IN  /\ (arg.n \in 0..65535 /\ arg.line = Line(<<MAGIC, Dec(arg.n)>>)) => ret = Ok(arg.n)
            /\ (toks = <<>> \/ toks[1] # MAGIC) => ret = Err("MissingMagic")
            /\ (toks # <<>> /\ toks[1] = MAGIC /\ arg.n \notin 0..65535) =>
                   ret = Err("MalformedCount")

(***************************************************************************)
(* PlateSettings::parse on one settings row                                *)
(***************************************************************************)
\* a token with what it denotes: num, the number of a numeral (else -1), and
\* list, the numbers of a white-space separated list
Tok(n) == [text |-> Dec(n), num |-> n, list |-> <<n>>]

ListTok(ns) == [text |-> Join([i \in 1..Len(ns) |-> Dec(ns[i])], " "), num |-> -1, list |-> ns]

BadTok == [text |-> Filler, num |-> -1, list |-> <<-1>>]

\* 25 keys, every index a different number, the wavelength lists of two entries
BaseToks(read_mode) ==
    [i \in 1..25 |->
        IF read_mode = STR_ABSORBANCE
        THEN CASE i - 1 = 8 -> Tok(2)
               [] i - 1 = 9 -> ListTok(<<450, 650>>)
               [] OTHER     -> Tok(i + 9)
        ELSE CASE i - 1 = 9  -> Tok(2)
               [] i - 1 = 10 -> ListTok(<<520, 590>>)
               [] i - 1 = 14 -> ListTok(<<485, 530>>)
               [] OTHER      -> Tok(i + 9)]

AltToks == {Tok(0), Tok(1), Tok(96), Tok(300), ListTok(<<340, 380, 405>>), BadTok}

KeyCounts == {25, 15, 10}

SettingsInputs ==
    {[read_type |-> rt, read_mode |-> rm, toks |-> SubSeq(BaseToks(rm), 1, n)] :
        rt \in {STR_ENDPOINT, STR_WELL_SCAN}, rm \in {STR_ABSORBANCE, STR_FLUORESCENCE},
        n \in KeyCounts}
    \cup {[read_type |-> rt, read_mode |-> rm,
           toks |-> [BaseToks(rm) EXCEPT ![j] = alt]] :
        rt \in {STR_ENDPOINT, STR_WELL_SCAN}, rm \in {STR_ABSORBANCE, STR_FLUORESCENCE},
        j \in 1..25, alt \in AltToks}

\* rows cut before the keys: only the first cols of the six leading columns
TruncatedInputs ==
    {[read_type |-> STR_ENDPOINT, read_mode |-> STR_FLUORESCENCE, toks |-> <<>>, cols |-> n] :
        n \in 0..5}

SettingsRow(a) ==
    IF "cols" \in DOMAIN a
    THEN Line(SubSeq(<<<<"P", "l", "a", "t", "e", ":">>, <<"P", "1">>, <<"1", ".", "3">>, Filler,
                       a.read_type, a.read_mode>>, 1, a.cols))
    ELSE SettingsLine(a.read_type, a.read_mode, [i \in 1..Len(a.toks) |-> a.toks[i].text])

InitSettings ==
    /\ Idle
    /\ pc = "PlateSettings::parse"
    /\ arg \in SettingsInputs \cup TruncatedInputs
    /\ ret = None

CallSettingsParse ==
    /\ pc = "PlateSettings::parse"
    /\ ret = None
    /\ ret' = PlateSettings_parse(SettingsRow(arg))
    /\ UNCHANGED IdleVars

NextSettings == CallSettingsParse

SpecSettings == InitSettings /\ [][NextSettings]_vars

\* k[i] of the claim: the token at index 6 + i of the settings row
K(i) == arg.toks[i + 1]

Shorter(a, b) == IF a < b THEN a ELSE b

\* C7: the layout taken from the tokens k from index 6 on is, for
\* Endpoint/Absorbance, reads k[2], rows k[13] k[14], cols k[10] k[11], plate
\* size k[12] and the first k[8] entries of list k[9] as Absorbance; for the
\* two Fluorescence pairs reads k[3], rows k[23] k[24], cols k[11] k[12], plate
\* size k[13] and the first k[9] pairs of lists k[14], k[10] as
\* Fluorescence(ex, em); WellScan/Absorbance fails with UnsupportedVariant.
C7_LayoutTable ==
    (pc = "PlateSettings::parse" /\ ret # None) =>
        /\ (ret.ok /\ arg.read_mode = STR_ABSORBANCE) =>
              /\ arg.read_type = STR_ENDPOINT
              /\ ret.val.info =
                    PlateInfo(K(12).num, K(13).num, K(14).num, K(10).num, K(11).num, K(2).num,
                              [i \in 1..Shorter(K(8).num, Len(K(9).list)) |-> [abs |-> K(9).list[i]]])
        /\ (ret.ok /\ arg.read_mode = STR_FLUORESCENCE) =>
              ret.val.info =
                    PlateInfo(K(13).num, K(23).num, K(24).num, K(11).num, K(12).num, K(3).num,
                              [i \in 1..Shorter(K(9).num, Shorter(Len(K(14).list), Len(K(10).list))) |->
                                  [ex |-> K(14).list[i], em |-> K(10).list[i]]])
        /\ (arg.read_type = STR_WELL_SCAN /\ arg.read_mode = STR_ABSORBANCE) =>
              ret = Err("UnsupportedVariant")
        /\ (Len(arg.toks) = 25 /\ \A i \in 1..25 : arg.toks[i] = BaseToks(arg.read_mode)[i]
            /\ ~(arg.read_type = STR_WELL_SCAN /\ arg.read_mode = STR_ABSORBANCE)) => ret.ok

C7_Witness ==
    /\ pc = "PlateSettings::parse" /\ ret # None /\ ret.ok
    /\ ret.val.read_type = "WellScan"
    /\ ret.val.info.wavelengths = <<[ex |-> 485, em |-> 520], [ex |-> 530, em |-> 590]>>
    /\ ret.val.info.row_span = 34

(***************************************************************************)
(* parse_plate on one grid row                                             *)
(***************************************************************************)
MaxWindows == 2

TwoWaves == <<Absorbance(450), Absorbance(650)>>

\* windows of tc data columns and a spacer column
WindowKinds(tc) ==
    {Window(<<>>, tc, <<>>),
     Window(<<V05, V12>>, tc, <<>>),
     [c \in 1..(tc + 1) |-> IF c <= tc THEN V03 ELSE <<>>],
     [c \in 1..(tc + 1) |-> IF c = tc THEN V09 ELSE IF c = tc + 1 THEN <<"x">> ELSE <<>>],
     Window(<<<<" ", "0", ".", "5", " ">>, <<" ">>, V12>>, tc, V09),
     Window(<<V05, <<"x">>>>, tc, <<>>)}

\* what may follow the last whole window: nothing, a window cut short, or a
\* window without its spacer column
Tails(tc) == {<<>>, <<V05, V12>>, [c \in 1..tc |-> V03]}

RowInputs ==
    UNION {[plate : {plate}, col_span : {2, PlateCols(plate)}, nw : 0..2, row : {0, 5},
            wins : UNION {[1..n -> WindowKinds(PlateCols(plate))] : n \in 0..MaxWindows},
            tail : Tails(PlateCols(plate))] : plate \in {96, 384}}

RowLine(a) == GridRow(<<>>, TEMP, a.wins \o <<a.tail>>)

\* the same row with every spacer column blank
RowLineBlankSpacers(a) ==
    GridRow(<<>>, TEMP,
            [w \in 1..Len(a.wins) |->
                [c \in 1..Len(a.wins[w]) |-> IF c = Len(a.wins[w]) THEN <<>> ELSE a.wins[w][c]]]
            \o <<a.tail>>)

RowSettings(a) ==
    [name |-> <<"P", "1">>, read_type |-> "Endpoint", read_mode |-> "Absorbance",
     info |-> PlateInfo(a.plate, 1, 2, 1, a.col_span, 1, SubSeq(TwoWaves, 1, a.nw))]

InitRow ==
    /\ Idle
    /\ pc = "parse_plate"
    /\ arg \in RowInputs
    /\ ret = None

CallParseRow ==
    /\ pc = "parse_plate"
    /\ ret = None
    /\ ret' = parse_row(RowLine(arg), arg.row, None, RowSettings(arg),
                        plate_dims(arg.plate).val[2])
    /\ UNCHANGED IdleVars

NextRow == CallParseRow

SpecRow == InitRow /\ [][NextRow]_vars

\* the trimmed cell at zero-based column c of zero-based window i, for windows
\* of width columns after the first two of the columns cols of a row
CellAt(cols, i, c, width) ==
    LET idx == 2 + i * width + c + 1
    IN  IF idx <= Len(cols) THEN trim(cols[idx]) ELSE <<>>

\* the number of emitted values with wavelength i (zero-based) and well (row, c)
Emitted(a, vals, i, c) ==
    Cardinality({k \in 1..Len(vals) :
                    vals[k].wavelength = TwoWaves[i + 1] /\ vals[k].well = <<a.row, c>>})

\* C6 (as claimed): windows of col_span + 1 columns; window i below the number
\* of wavelengths yields one value per non-empty data cell c < col_span, with
\* wavelength i and well (r, c), and nothing else is emitted.
C6_SpanWindows ==
    (pc = "parse_plate" /\ ret # None /\ ret.ok) =>
        LET vals == ret.val[2]
            cols == split(RowLine(arg), "\t")
        IN  /\ \A i \in 0..(arg.nw - 1) : \A c \in 0..(arg.col_span - 1) :
                  Emitted(arg, vals, i, c) =
                      IF CellAt(cols, i, c, arg.col_span + 1) # <<>> THEN 1 ELSE 0
            /\ \A k \in 1..Len(vals) :
                  \E i \in 0..(arg.nw - 1) : \E c \in 0..(arg.col_span - 1) :
                      vals[k].wavelength = TwoWaves[i + 1] /\ vals[k].well = <<arg.row, c>>

\* C6 (amended): for a row that parses, the windows are total_cols + 1 columns
\* wide (total_cols = 12 or 24 by plate size); window i below the number of
\* wavelengths yields exactly one value per non-empty data cell c < total_cols,
\* with wavelength i and well (r, c), and none per empty cell; nothing else is
\* emitted (no spacer column, no window beyond the wavelength list); what the
\* spacer columns contain changes neither the values nor a failure.
C6_PlateWindows ==
    (pc = "parse_plate" /\ ret # None) =>
        LET tc == PlateCols(arg.plate)
        IN  /\ ret.ok =>
                 LET vals == ret.val[2]
                     cols == split(RowLine(arg), "\t")
                 IN  /\ \A i \in 0..(arg.nw - 1) : \A c \in 0..(tc - 1) :
                           Emitted(arg, vals, i, c) =
                               IF CellAt(cols, i, c, tc + 1) # <<>> THEN 1 ELSE 0
                     /\ \A k \in 1..Len(vals) :
                           \E i \in 0..(arg.nw - 1) : \E c \in 0..(tc - 1) :
                               vals[k].wavelength = TwoWaves[i + 1]
                               /\ vals[k].well = <<arg.row, c>>
            /\ ret = parse_row(RowLineBlankSpacers(arg), arg.row, None, RowSettings(arg), tc)

C6_Witness ==
    /\ pc = "parse_plate" /\ ret # None /\ ret.ok
    /\ arg.nw = 2 /\ Len(arg.wins) = 2 /\ arg.plate = 96 /\ arg.col_span = 2
    /\ arg.wins[1][13] = <<"x">>
    /\ Len(ret.val[2]) = 13

\* C11 (as claimed): PlateSettings::parse returns a value for every row and
\* never aborts: fewer than 6 tokens give TruncatedSettings, and a row with a
\* recognised type and mode but too few keys gives an error value.
C11_NeverAborts ==
    (pc = "PlateSettings::parse" /\ ret # None) =>
        /\ ~IsPanic(ret)
        /\ Len(split(SettingsRow(arg), "\t")) < 6 => ret = Err("TruncatedSettings")

\* C12 (as claimed): parsing a grid row returns normally, with well values or
\* an error value, however many columns the row has; a last window holding
\* fewer columns than the data-column count never aborts the parser.
C12_RowNeverAborts ==
    (pc = "parse_plate" /\ ret # None) => ~IsPanic(ret)

\* C13: whenever the decoder is about to read the header, a settings row, a
\* unit header or a sentinel, the line buffer is empty, and at every point the
\* buffer holds nothing but the line just read (or nothing), never text left
\* over from an earlier line.
C13_BufferEmptyBeforeRead ==
    /\ (result = None /\ pc \in {"header", "settings", "unit", "end"}) => buf = <<>>
    /\ buf = <<>> \/ buf = LineAt(pos)

\* the sentinel of a second block with reads is about to be read after a
\* first block that declared zero reads
C13_Witness ==
    /\ result = None
    /\ pc = "end"
    /\ buf = <<>>
    /\ Len(blocks) = 1
    /\ blocks[1].settings.info.reads = 0
    /\ Len(data) >= 1

(***************************************************************************)
(* output.rs: write_block on the wells of one block.  A record is modelled *)
(* by its Plate, Well, Row and Col fields, the cache by its well-name map. *)
(***************************************************************************)
ASCII_UPPER ==
    <<"A", "B", "C", "D", "E", "F", "G", "H", "I", "J", "K", "L", "M",
      "N", "O", "P", "Q", "R", "S", "T", "U", "V", "W", "X", "Y", "Z">>

\* (b'A' + n) as char, for the bytes that are upper-case letters
char_from_A(n) == ASCII_UPPER[n + 1]

\* format!("{:02}", n): the decimal numeral, zero-padded to width 2
fmt_02(n) == IF Len(Dec(n)) < 2 THEN <<"0">> \o Dec(n) ELSE Dec(n)

\* output.rs 110-112
fmt_wellname(rc) == <<char_from_A(rc[1])>> \o fmt_02(rc[2] + 1)

\* str::trim_matches(ch): ch is stripped from both ends
trim_matches(s, ch) ==
    LET keep == {i \in 1..Len(s) : s[i] # ch}
    IN  IF keep = {} THEN <<>> ELSE SubSeq(s, Min(keep), Max(keep))

\* output.rs 53-59: the map after entry(key).or_insert_with(|| default(key));
\* default stands for the value default(key), used only when the key is absent
get_from(map, k, default) ==
    IF k \in DOMAIN map THEN map ELSE map @@ (k :> default)

MaxRecords == 3

OtherWells == {<<0, 0>>, <<7, 9>>, <<15, 23>>}

\* a block of n well values: a well of the 16 x 24 grid and another well,
\* alternating, so that a well name is asked for again at the third value
WriteInputs == [well : (0..15) \X (0..23), other : OtherWells, n : 0..MaxRecords]

Wells(a) ==
    [i \in 1..a.n |->
        LET rc == IF i % 2 = 1 THEN a.well ELSE a.other
        IN  WellValue(Absorbance(IF i <= 2 THEN 450 ELSE 650), rc[1], rc[2],
                      parse_f64(V05).val)]

InitWrite ==
    /\ Idle
    /\ pc = "write_block"
    /\ arg \in WriteInputs
    /\ ret = None

\* output.rs 70-98: one iteration of the loop over the wells; write_record
\* may fail in the underlying writer
WriteRecord ==
    /\ pc = "write_block"
    /\ ret = None
    /\ Len(wtr) < arg.n
    /\ LET well     == Wells(arg)[Len(wtr) + 1]
           map      == get_from(cache.wellname, well.well, fmt_wellname(well.well))
           wellname == map[well.well]
           c        == trim_matches(SubSeq(wellname, 2, Len(wellname)), "0")
       IN  /\ cache' = [cache EXCEPT !.wellname = map]
           /\ \E written \in BOOLEAN :
                IF written
                THEN /\ wtr' = Append(wtr, [Plate |-> <<"P", "1">>, Well |-> wellname,
                                            Row |-> SubSeq(wellname, 1, 1), Col |-> c])
                     /\ UNCHANGED ret
                ELSE /\ ret' = Err("writing output row")
                     /\ UNCHANGED wtr
    /\ UNCHANGED <<file, pos, buf, pc, block_count, blocks, settings, data, r, output,
                   read_info, result, block_start, read_start, arg>>

\* output.rs 101: every well is written
WriteBlockReturn ==
    /\ pc = "write_block"
    /\ ret = None
    /\ Len(wtr) = arg.n
    /\ ret' = Ok(<<>>)
    /\ UNCHANGED IdleVars

NextWrite ==
    \/ WriteRecord
    \/ WriteBlockReturn

SpecWrite == InitWrite /\ [][NextWrite]_vars

RowLetters ==
    <<"A", "B", "C", "D", "E", "F", "G", "H", "I", "J", "K", "L", "M", "N", "O", "P">>

\* C14 (as claimed): for every well (row, col) of the 16 x 24 grid the record
\* written has Well = the row letter followed by col+1 padded to two digits,
\* Row = the row letter, and Col = the numeral of col+1 without leading
\* zeros (a numeral of value col+1); every cached well name is what
\* fmt_wellname returns for its well.
C14_CsvWellFields ==
    pc = "write_block" =>
        /\ \A i \in 1..Len(wtr) :
              LET rc  == Wells(arg)[i].well
                  rec == wtr[i]
              IN  /\ rec.Well = <<RowLetters[rc[1] + 1]>>
                                \o (IF rc[2] + 1 < 10 THEN <<"0">> ELSE <<>>)
                                \o Dec(rc[2] + 1)
                  /\ rec.Row = <<RowLetters[rc[1] + 1]>>
                  /\ rec.Col # <<>>
                  /\ rec.Col[1] # "0"
                  /\ DecVal(rec.Col) = rc[2] + 1
        /\ \A k \in DOMAIN cache.wellname : cache.wellname[k] = fmt_wellname(k)

====
